---------------------------- MODULE Spec2Model ----------------------------
(***************************************************************************)
(* Model of win-audio-visualizer: AudioProcessor (device selection, the    *)
(* capture stream, the hand-off queue) and CircularVisualizer (the tick    *)
(* handler update_plot and the state it owns).                             *)
(*                                                                         *)
(* Two threads exist in the program: the main thread, which calls          *)
(* start_capture / stop_capture and runs the Qt timer that fires           *)
(* update_plot, and the host audio thread, which invokes audio_callback    *)
(* while a stream is started.  pc is the main thread's position; the       *)
(* callback is one atomic step (queue.Queue.put is thread safe).           *)
(*                                                                         *)
(* Numbers: samples, radii and peaks are in thousandths (1000 = 1.0);      *)
(* hue in thousandths of a turn; line life in steps of 0.01; particle life *)
(* in steps of 0.002; particle positions in units of 0.0005.               *)
(***************************************************************************)
EXTENDS Integers, Sequences, FiniteSets, TLC

VARIABLES
    devices,      \* the host's device list, as sd.query_devices() returns it
    device,       \* AudioProcessor.device: None or a device index (0-based)
    sample_rate,  \* AudioProcessor.sample_rate
    stream,       \* AudioProcessor.stream: None or a host stream handle
    running,      \* AudioProcessor.running
    self_channels, \* AudioProcessor.channels, as given to the constructor
    q,            \* AudioProcessor.q: the hand-off queue (head = oldest)
    open,         \* host: stream handles constructed and not yet closed
    active,       \* host: stream handles started and not yet stopped
    pc,           \* main thread: "idle" or the source line it is about to run
    log,          \* the last message printed
    raised,       \* TRUE when the last main-thread call ended with an exception
    selected,     \* result of the last direct find_loopback_device() call
    produced,     \* number of frames the callback has enqueued so far
    stops,        \* consecutive completed stop_capture calls (saturates at 2)
    win,          \* CircularVisualizer.win is set (setup_plot has run)
    timer,        \* CircularVisualizer.timer is set and started
    line_items,   \* the render slots of the light lines: 0 = empty, else a line id
    wave_time,    \* in steps of wave_speed
    breath_phase, \* in steps of breath_speed
    hue,          \* in thousandths
    wave_max,     \* peak tracker of the waveform, in thousandths
    spectrum_max, \* peak tracker of the spectrum, in thousandths of a dB
    wave_history, \* the radius arrays kept for the afterglow
    curve,        \* the data last given to wave_curve.setData
    light_lines,  \* the pool of light lines
    particles,    \* the pool of particles
    core_pulse_phase, \* in steps of 0.02
    ticks,        \* number of update_plot calls so far
    data,         \* what get_audio_data returned to the last update_plot
    quiet         \* history: the last `quiet' completed ticks each drew a silent frame

\* None, where the program holds an index or a handle (indices start at 0,
\* handles at 1); NotCalled marks that find_loopback_device was not called yet.
NoDevice == -1
NoStream == 0
NotCalled == NoDevice - 1

(***************************************************************************)
(* Bounds of the model.                                                    *)
(***************************************************************************)
MaxDevices == 3   \* longest host device list explored by SpecSelect
MaxFrames == 2    \* callback invocations explored
MaxStreams == 2   \* stream handles the host lets be open at once
MaxTicks == 2     \* update_plot calls explored
NumParticles == 2 \* size of the particle pool (150 in the program)
SilentRun == 200  \* silent frames after which the line pool is examined
DecayRun == 12    \* ticks explored by SpecPeak
MaxChannels == 2  \* largest channel count given to the constructor in SpecMono
HueRun == 1002    \* ticks explored by SpecHue

(***************************************************************************)
(* Program constants.                                                      *)
(***************************************************************************)
channels == 2            \* AudioProcessor(channels=2)
default_sample_rate == 44100
maxsize == 0             \* queue.Queue(): maxsize <= 0 means no capacity limit

(***************************************************************************)
(* Host devices.  A name is a sequence of words; `x in name.lower()' is    *)
(* modelled as: some word of the name, lower-cased, equals x.              *)
(***************************************************************************)
Lower(w) ==
    CASE w = "Loopback" -> "loopback"
      [] w = "LOOPBACK" -> "loopback"
      [] w = "WASAPI"   -> "wasapi"
      [] OTHER          -> w

ContainsLower(name, x) == \E i \in 1..Len(name) : Lower(name[i]) = x
Contains(name, x) == \E i \in 1..Len(name) : name[i] = x

DeviceNames ==
    { <<"Mic">>, <<"Speakers">>, <<"Loopback">>, <<"Speakers", "LOOPBACK">>,
      <<"ループバック">>, <<"WASAPI">>, <<"wasapi", "ループバック">>,
      <<"プライマリ サウンド キャプチャ">> }

Devices ==
    [name : DeviceNames, max_input_channels : {0, 2},
     default_samplerate : {48000}]

RECURSIVE SeqsUpTo(_, _)
SeqsUpTo(S, n) ==
    IF n = 0 THEN { <<>> }
    ELSE LET shorter == SeqsUpTo(S, n - 1)
         IN  shorter \cup { Append(s, x) : s \in { t \in shorter : Len(t) = n - 1 }, x \in S }

Dev(n, c) == [name |-> n, max_input_channels |-> c, default_samplerate |-> 48000]

\* The host configurations the capture specification starts from.
HostConfigs ==
    { << Dev(<<"Speakers">>, 0) >>,
      << Dev(<<"Speakers">>, 0), Dev(<<"Speakers", "LOOPBACK">>, 2) >> }

(***************************************************************************)
(* find_loopback_device: five passes over the list in host order, each     *)
(* returning the first index (0-based) that satisfies its test.            *)
(***************************************************************************)
NameTest(k, name) ==
    CASE k = 1 -> ContainsLower(name, "loopback")
      [] k = 2 -> Contains(name, "ループバック")
      [] k = 3 -> ContainsLower(name, "wasapi")
      [] k = 4 -> Contains(name, "プライマリ サウンド キャプチャ")
      [] OTHER -> TRUE

\* A plausible slip: the localized-name pass forgets the input-channel test.
PassTest_NoInputCheck(k, d) ==
    IF k = 2 THEN NameTest(k, d.name)
    ELSE NameTest(k, d.name) /\ d.max_input_channels > 0

PassTest(k, d) == NameTest(k, d.name) /\ d.max_input_channels > 0

\* for i, device in enumerate(devices): if <test k>: return i
FirstIndex(devs, k) ==
    IF \E i \in 1..Len(devs) : PassTest(k, devs[i])
    THEN (CHOOSE i \in 1..Len(devs) :
             PassTest(k, devs[i]) /\ \A j \in 1..(i - 1) : ~PassTest(k, devs[j])) - 1
    ELSE NoDevice

RECURSIVE FromPass(_, _)
FromPass(devs, k) ==
    IF k > 5 THEN NoDevice
    ELSE IF FirstIndex(devs, k) /= NoDevice THEN FirstIndex(devs, k)
    ELSE FromPass(devs, k + 1)

find_loopback_device(devs) == FromPass(devs, 1)

(***************************************************************************)
(* Frames.  The host hands the callback a block of window_size rows, one   *)
(* sample per channel in each row; the callback enqueues one mono frame.   *)
(***************************************************************************)
\* the sequence <<f[1], ..., f[n]>>, as one evaluated tuple
Tuple(f, n) == SubSeq(f, 1, n)

window_size == 4         \* the block size (2048 in the program, scaled)

\* one row of indata: a sample per channel, a on the first channel, b on the
\* second and their mean on any further one
Row(a, b) ==
    Tuple([c \in 1..self_channels |->
              IF c = 1 THEN a ELSE IF c = 2 THEN b ELSE (a + b) \div 2],
          self_channels)

\* The blocks the host delivers, of shape (window_size, channels): silence, a
\* steady tone, an alternating one.
InputBlocks ==
    { Tuple([i \in 1..window_size |-> Row(0, 0)], window_size),
      Tuple([i \in 1..window_size |-> Row(1000, 0)], window_size),
      Tuple([i \in 1..window_size |-> IF i % 2 = 1 THEN Row(-600, -200) ELSE Row(1000, 0)],
            window_size) }

RECURSIVE SumSeq(_)
SumSeq(s) == IF s = <<>> THEN 0 ELSE Head(s) + SumSeq(Tail(s))

\* integer division rounding toward zero is not needed: the rows' sums are even
MeanRow(row) == SumSeq(row) \div Len(row)

\* np.mean(indata, axis=1) when channels > 1, else indata.copy(): the copy
\* keeps the rows of indata
Mono(indata) ==
    IF self_channels > 1
    THEN Tuple([i \in 1..Len(indata) |-> MeanRow(indata[i])], Len(indata))
    ELSE indata

\* the number of axes of the array that is put: np.mean(indata, axis=1) has
\* shape (frames,), indata.copy() has the shape (frames, channels) of indata
Ndim(indata) == IF self_channels > 1 THEN 1 ELSE 2

(***************************************************************************)
(* get_audio_data and process_audio_data.                                  *)
(***************************************************************************)
\* the absence value (None) of get_audio_data: no frame has id 0
NoFrame == [id |-> 0, ndim |-> 0, samples |-> <<>>]

\* what app.py's AudioVisualizer.get_audio_data does instead: a silent frame
get_audio_data_Zeros(queue) ==
    IF queue = <<>> THEN [id |-> 0, ndim |-> 1, samples |-> [i \in 1..window_size |-> 0]]
    ELSE Head(queue)

\* try: return self.q.get_nowait()  except queue.Empty: return None
get_audio_data(queue) == IF queue = <<>> THEN NoFrame ELSE Head(queue)

\* a plausible slip: the head is read and left in the queue
AfterGet_Peek(queue) == queue

\* the queue after get_nowait()
AfterGet(queue) == IF queue = <<>> THEN queue ELSE Tail(queue)

Abs(x) == IF x < 0 THEN -x ELSE x
Max(a, b) == IF a >= b THEN a ELSE b
Min(a, b) == IF a <= b THEN a ELSE b
\* a / b, with 0 standing for the nan that numpy yields for x / 0
Div(a, b) == IF b = 0 THEN 0 ELSE a \div b

RECURSIVE MaxAbs(_)
MaxAbs(s) == IF s = <<>> THEN 0 ELSE Max(Abs(Head(s)), MaxAbs(Tail(s)))

\* np.hanning(4) = [0, 0.75, 0.75, 0], in thousandths
Hanning(n) == IF n = 1 \/ n = window_size THEN 0 ELSE 750

\* cos and sin of a multiple of a quarter turn
Cos4(m) == CASE m % 4 = 0 -> 1 [] m % 4 = 2 -> -1 [] OTHER -> 0
Sin4(m) == CASE m % 4 = 1 -> 1 [] m % 4 = 3 -> -1 [] OTHER -> 0

\* |rfft(x)[k]| squared for a frame of 4 samples, in millionths
BinPower(x, k) ==
    LET re == SumSeq(Tuple([n \in 1..Len(x) |-> x[n] * Cos4(k * (n - 1))], Len(x)))
        im == SumSeq(Tuple([n \in 1..Len(x) |-> x[n] * Sin4(k * (n - 1))], Len(x)))
    IN  re * re + im * im

RECURSIVE Decades(_)
Decades(m) == IF m < 10 THEN 0 ELSE 1 + Decades(m \div 10)

\* 20 * log10(max(|X|, 1e-10)) = 10 * log10(max(|X|^2, 1e-20)), in thousandths
\* of a dB, rounded down to a multiple of 10 dB; a magnitude of 0 is clamped
\* to the floor 1e-10, i.e. -200 dB
floor_db == -200000
\* without np.maximum: log10(0) is -inf, written as a value below every dB
Db_NoClamp(power) ==
    IF power = 0 THEN 10000 * floor_db ELSE 10000 * (Decades(power) - 6)
Db(power) == IF power = 0 THEN floor_db ELSE 10000 * (Decades(power) - 6)

\* process_audio_data(data) -> the spectrum (the waveform is data itself)
process_audio_data(samples) ==
    LET windowed == Tuple([n \in 1..Len(samples) |-> (samples[n] * Hanning(n)) \div 1000],
                          Len(samples))
    IN  Tuple([k \in 1..(Len(samples) \div 2 + 1) |-> Db(BinPower(windowed, k - 1))],
              Len(samples) \div 2 + 1)

(***************************************************************************)
(* CircularVisualizer: constants, in the units of this model.              *)
(***************************************************************************)
num_points == 7          \* angular resolution (720 in the program, scaled)
max_lines == 8
history_length == 5
line_life_max == 100     \* 1.0, in steps of 0.01
core_radius == 150
base_radius == 400
max_span == 800          \* if distance <= 0.8
max_allowed_length == 1000
unit == 2000             \* 1.0, in particle position units of 0.0005

NoCurve == [frame |-> 0, wave_time |-> 0, breath_phase |-> 0, wave_max |-> 0]

\* Particles as __init__ may draw them: moving right from the centre; at the
\* right edge and moving out; in a corner of the square and moving in.
ParticlePools ==
    { [i \in 1..NumParticles |-> [x |-> 0, y |-> 0, vx |-> 1, vy |-> 0, life |-> 500]],
      [i \in 1..NumParticles |->
          IF i = 1 THEN [x |-> unit, y |-> 0, vx |-> 1, vy |-> 0, life |-> 400]
          ELSE [x |-> unit, y |-> -unit, vx |-> -1, vy |-> 1, life |-> 450]] }

\* The random draws of one respawn: the direction (as its cosine and sine),
\* the distance from the centre, the speed and the new life.
RespawnDraws ==
    { [cos |-> 1, sin |-> 0, distance |-> 200, speed |-> 1, life |-> 400],
      [cos |-> 0, sin |-> -1, distance |-> 599, speed |-> 4, life |-> 500] }

\* The random draws of one light line: radii in thousandths, angles in
\* thousandths of a radian, the cosine of the angle between start and end.
LineDraws ==
    { [start_radius |-> 120, start_angle |-> 0, end_radius |-> 699,
       angle_diff |-> 100, cos_diff |-> 995, hue_offset |-> -100],
      [start_radius |-> 179, start_angle |-> 3000, end_radius |-> 400,
       angle_diff |-> 0, cos_diff |-> 1000, hue_offset |-> 100] }

\* random.random(), in thousandths
SpawnRolls == {0, 500}
line_spawn_chance == 20  \* 0.02, in thousandths

(***************************************************************************)
(* State.                                                                  *)
(***************************************************************************)
capture == <<device, sample_rate, stream, running>>
host == <<open, active>>
clock == <<wave_time, breath_phase, hue>>
trackers == <<wave_max, spectrum_max>>
scene == <<wave_history, curve, light_lines, line_items, particles, core_pulse_phase>>
window == <<win, timer>>
engine == <<clock, trackers, scene, window, ticks, data, quiet>>
vars == <<devices, self_channels, device, sample_rate, stream, running, q, open, active, pc,
          log, raised, selected, produced, stops, win, timer,
          line_items, wave_time, breath_phase, hue, wave_max, spectrum_max,
          wave_history, curve, light_lines, particles, core_pulse_phase,
          ticks, data, quiet>>

InitCapture ==
    /\ device = NoDevice
    /\ sample_rate = default_sample_rate
    /\ stream = NoStream
    /\ running = FALSE
    /\ q = <<>>
    /\ open = {}
    /\ active = {}
    /\ pc = "idle"
    /\ log = "none"
    /\ raised = FALSE
    /\ selected = NotCalled
    /\ produced = 0
    /\ stops = 0

\* CircularVisualizer.__init__
InitEngine ==
    /\ win = FALSE
    /\ timer = FALSE
    /\ line_items = <<>>
    /\ wave_time = 0
    /\ breath_phase = 0
    /\ hue = 0
    /\ wave_max = 100
    /\ spectrum_max = 100
    /\ wave_history = <<>>
    /\ curve = NoCurve
    /\ light_lines = <<>>
    /\ particles \in ParticlePools
    /\ core_pulse_phase = 0
    /\ ticks = 0
    /\ data = NoFrame
    /\ quiet = 0

Init ==
    /\ devices \in HostConfigs
    /\ self_channels = channels
    /\ InitCapture
    /\ InitEngine

(***************************************************************************)
(* audio_callback, on the host audio thread, while a stream is started.    *)
(***************************************************************************)
\* queue.Queue.put: blocks only when maxsize > 0 and the queue is full
put(queue, item) == Append(queue, item)
CanPut(queue) == maxsize <= 0 \/ Len(queue) < maxsize

\* a plausible slip: a flagged block is treated as an error and dropped
Enqueue_DropFlagged(queue, item, status) == IF status THEN queue ELSE put(queue, item)

\* lines 62-65: the frame is put whatever the status was
Enqueue(queue, item, status) == put(queue, item)

\* lines 59-65: a set status flag is printed, then the frame is enqueued
audio_callback(indata, status) ==
    /\ active /= {}
    /\ CanPut(q)
    /\ q' = Enqueue(q, [id |-> produced + 1, ndim |-> Ndim(indata),
                        samples |-> Mono(indata)], status)
    /\ produced' = produced + 1
    /\ log' = IF status THEN "status" ELSE log
    /\ UNCHANGED <<devices, self_channels, capture, host, pc, raised, selected, stops, engine>>

Callback ==
    /\ produced < MaxFrames
    /\ \E indata \in InputBlocks, status \in BOOLEAN : audio_callback(indata, status)

(***************************************************************************)
(* start_capture(device_id).                                               *)
(***************************************************************************)
\* the device start_capture settles on (lines 139-142)
ResolveDevice(device_id) ==
    IF device_id /= NoDevice THEN device_id
    ELSE IF device = NoDevice THEN find_loopback_device(devices)
    ELSE device

FreshHandle == CHOOSE h \in 1..(MaxStreams + 1) : h \notin open

\* a plausible slip: the guard is dropped
AlreadyRunning_Never(r) == FALSE

\* if self.running: print(...); return
AlreadyRunning(r) == r


\* lines 134-169: the guard, the device choice, the query and the constructor.
\* listOk, queryOk, openOk: whether the host's sd.query_devices(), its
\* sd.query_devices(device) and its sd.InputStream(...) succeed.
start_capture(device_id, listOk, queryOk, openOk) ==
    /\ pc = "idle"
    /\ stops' = 0
    /\ IF AlreadyRunning(running)
       THEN /\ log' = "already_running"
            /\ raised' = FALSE
            /\ UNCHANGED <<capture, host, pc>>
       ELSE IF device_id = NoDevice /\ device = NoDevice /\ ~listOk
       THEN \* find_loopback_device is called outside the try block (line 142)
            /\ raised' = TRUE
            /\ UNCHANGED <<capture, host, pc, log>>
       ELSE LET dev == ResolveDevice(device_id) IN
            /\ raised' = FALSE
            /\ device' = dev
            /\ IF dev = NoDevice
               THEN /\ log' = "no_device"
                    /\ UNCHANGED <<sample_rate, stream, running, host, pc>>
               ELSE IF ~(queryOk /\ dev \in 0..(Len(devices) - 1))
               THEN \* sd.query_devices(self.device) raises: except branch
                    /\ log' = "start_failed"
                    /\ UNCHANGED <<sample_rate, stream, running, host, pc>>
               ELSE /\ sample_rate' = devices[dev + 1].default_samplerate
                    /\ running' = running
                    /\ IF ~(openOk /\ Cardinality(open) < MaxStreams)
                       THEN \* sd.InputStream(...) raises: except branch
                            /\ log' = "start_failed"
                            /\ UNCHANGED <<stream, host, pc>>
                       ELSE /\ stream' = FreshHandle
                            /\ open' = open \cup {FreshHandle}
                            /\ active' = active
                            /\ log' = log
                            /\ pc' = "start_170"
    /\ UNCHANGED <<devices, self_channels, q, selected, produced, engine>>

\* line 170: self.stream.start()
start_stream(startOk) ==
    /\ pc = "start_170"
    /\ IF startOk
       THEN /\ active' = active \cup {stream}
            /\ pc' = "start_171"
            /\ log' = log
       ELSE /\ log' = "start_failed"
            /\ pc' = "idle"
            /\ active' = active
    /\ UNCHANGED <<devices, self_channels, capture, q, open, raised, selected, produced, stops, engine>>

\* lines 171-172: self.running = True
start_running ==
    /\ pc = "start_171"
    /\ running' = TRUE
    /\ log' = "started"
    /\ pc' = "idle"
    /\ UNCHANGED <<devices, self_channels, device, sample_rate, stream, q, host, raised, selected,
                   produced, stops, engine>>

DeviceIds == {NoDevice} \cup 0..Len(devices)

StartCapture ==
    \E device_id \in DeviceIds, listOk \in BOOLEAN, queryOk \in BOOLEAN,
       openOk \in BOOLEAN :
        start_capture(device_id, listOk, queryOk, openOk)

StartStream == \E startOk \in BOOLEAN : start_stream(startOk)

(***************************************************************************)
(* stop_capture.                                                           *)
(***************************************************************************)
\* a plausible slip: the guard tests the running flag
HoldsStream_Running(s, r) == r

\* if self.stream is not None
HoldsStream(s, r) == s /= NoStream


Bump(n) == IF n < 2 THEN n + 1 ELSE 2

\* a plausible slip: the stream is not stopped before it is given up
StopStream_Skip(started, s) == started

\* self.stream.stop(): the host ends the stream; no callback runs after it
StopStream(started, s) == started \ {s}

\* lines 180-181: the guard and self.stream.stop()
stop_capture ==
    /\ pc = "idle"
    /\ raised' = FALSE
    /\ IF HoldsStream(stream, running)
       THEN /\ active' = StopStream(active, stream)
            /\ pc' = "stop_182"
            /\ stops' = stops
       ELSE /\ stops' = Bump(stops)
            /\ UNCHANGED <<active, pc>>
    /\ UNCHANGED <<devices, self_channels, capture, q, open, log, selected, produced, engine>>

\* line 182: self.stream.close() (closing also ends a stream still started)
close_stream ==
    /\ pc = "stop_182"
    /\ open' = open \ {stream}
    /\ active' = active \ {stream}
    /\ pc' = "stop_183"
    /\ UNCHANGED <<devices, self_channels, capture, q, log, raised, selected, produced, stops, engine>>

\* a plausible slip: the handle is given up and the flag is left set
clear_state_KeepRunning ==
    /\ pc = "stop_183"
    /\ stream' = NoStream
    /\ running' = running
    /\ log' = "stopped"
    /\ pc' = "idle"
    /\ stops' = Bump(stops)
    /\ UNCHANGED <<devices, self_channels, device, sample_rate, q, host, raised, selected, produced, engine>>

\* lines 183-185: self.stream = None; self.running = False
clear_state ==
    /\ pc = "stop_183"
    /\ stream' = NoStream
    /\ running' = FALSE
    /\ log' = "stopped"
    /\ pc' = "idle"
    /\ stops' = Bump(stops)
    /\ UNCHANGED <<devices, self_channels, device, sample_rate, q, host, raised, selected, produced, engine>>

(***************************************************************************)
(* CircularVisualizer.start_animation / stop_animation.                    *)
(***************************************************************************)
\* setup_plot: for _ in range(self.max_lines): self.line_items.append(...)
setup_plot(items) == items \o [i \in 1..max_lines |-> 0]

start_animation ==
    /\ pc = "idle"
    /\ line_items' = IF win THEN line_items ELSE setup_plot(line_items)
    /\ win' = TRUE
    /\ timer' = TRUE
    /\ UNCHANGED <<devices, self_channels, capture, q, host, pc, log, raised, selected, produced,
                   stops, clock, trackers, wave_history, curve,
                   light_lines, particles, core_pulse_phase, ticks, data, quiet>>

\* stop_animation has no caller in the repository
stop_animation ==
    /\ pc = "idle"
    /\ timer' = FALSE
    /\ win' = FALSE
    /\ UNCHANGED <<devices, self_channels, capture, q, host, pc, log, raised, selected, produced,
                   stops, clock, trackers, scene, ticks, data, quiet>>

(***************************************************************************)
(* CircularVisualizer.update_plot, the tick handler.                       *)
(***************************************************************************)
decay == 995             \* 0.995, in thousandths

\* a plausible slip: the tracker holds its peak and is never released
TrackPeak_Hold(m, peak) == Max(m, peak)

\* self.wave_max *= 0.995; self.wave_max = max(self.wave_max, peak)
TrackPeak(m, peak) == Max((m * decay) \div 1000, peak)

\* normalized_wave = wave_data / self.wave_max (line 311), in thousandths
NormalizeWave(wave_data, wmax) ==
    Tuple([i \in 1..Len(wave_data) |-> Div(wave_data[i] * 1000, wmax)], Len(wave_data))

\* normalized_spectrum = spectrum_data / 100.0 (line 316), in thousandths;
\* the tracked peak smax is not used
NormalizeSpectrum(spectrum_data, smax) ==
    Tuple([i \in 1..Len(spectrum_data) |-> spectrum_data[i] \div 100], Len(spectrum_data))

\* np.interp(np.linspace(0, len - 1, num_points), np.arange(len), wave)[j]
Interp(wave, j) ==
    LET num == j * (Len(wave) - 1)
        den == num_points - 1
        lo  == num \div den
        fr  == num % den
    IN  IF fr = 0 THEN wave[lo + 1]
        ELSE (wave[lo + 1] * (den - fr) + wave[lo + 2] * fr) \div den

Resample(wave) == Tuple([j \in 1..num_points |-> Interp(wave, j - 1)], num_points)

\* a plausible slip: the intensity is not clamped to 1.0
SoundIntensity_NoClamp(resampled) ==
    (2 * SumSeq(Tuple([j \in 1..Len(resampled) |-> Abs(resampled[j])],
                      Len(resampled))))
       \div Len(resampled)

\* min(1.0, np.mean(np.abs(resampled_wave)) * 2.0)
SoundIntensity(resampled) ==
    Min(1000, (2 * SumSeq(Tuple([j \in 1..Len(resampled) |-> Abs(resampled[j])],
                                Len(resampled))))
                 \div Len(resampled))

\* (ex-sx)**2 + (ey-sy)**2 of a line, the square of its span, in millionths
SpanSquared(l) ==
    l.start_radius * l.start_radius + l.end_radius * l.end_radius
    - (2 * l.start_radius * l.end_radius * l.cos_diff) \div 1000

\* np.sqrt(span squared) <= limit, decided on the squares
SpanWithin(l, limit) == SpanSquared(l) <= limit * limit

\* a plausible slip: the pool size is not tested before a line is added
spawn_light_line_NoLimit(lines, intensity, roll, draw, id, h) ==
    IF roll * 1000 < line_spawn_chance * intensity /\ SpanWithin(draw, max_span)
    THEN Append(lines, [id |-> id, life |-> line_life_max,
                        start_radius |-> draw.start_radius,
                        end_radius |-> draw.end_radius,
                        cos_diff |-> draw.cos_diff,
                        hue |-> (h + 1000 + draw.hue_offset) % 1000])
    ELSE lines

\* a plausible slip: the distance of the end points is not tested
spawn_light_line_NoCheck(lines, intensity, roll, draw, id, h) ==
    IF Len(lines) < max_lines /\ roll * 1000 < line_spawn_chance * intensity
    THEN Append(lines, [id |-> id, life |-> line_life_max,
                        start_radius |-> draw.start_radius,
                        end_radius |-> draw.end_radius,
                        cos_diff |-> draw.cos_diff,
                        hue |-> (h + 1000 + draw.hue_offset) % 1000])
    ELSE lines

\* _spawn_light_line(intensity), with its random draws
spawn_light_line(lines, intensity, roll, draw, id, h) ==
    IF Len(lines) < max_lines /\ roll * 1000 < line_spawn_chance * intensity
    THEN IF SpanWithin(draw, max_span)
         THEN Append(lines, [id |-> id, life |-> line_life_max,
                             start_radius |-> draw.start_radius,
                             end_radius |-> draw.end_radius,
                             cos_diff |-> draw.cos_diff,
                             hue |-> (h + 1000 + draw.hue_offset) % 1000])
         ELSE lines
    ELSE lines

RemoveAt(seq, i) == SubSeq(seq, 1, i - 1) \o SubSeq(seq, i + 1, Len(seq))

\* a plausible slip: a line whose life has run out is kept in the pool
UpdateLines_KeepDead(lines, slots, pos) ==
    [lines |-> Tuple([i \in 1..Len(lines) |-> [lines[i] EXCEPT !.life = @ - 1]], Len(lines)),
     slots |-> slots]

\* for i, line in enumerate(self.light_lines): ... (lines 407-442).  pos is
\* the iterator's position; removing an element while iterating shifts the
\* rest down, and the iterator moves on to pos + 1.
RECURSIVE UpdateLines(_, _, _)
UpdateLines(lines, slots, pos) ==
    IF pos > Len(lines) THEN [lines |-> lines, slots |-> slots]
    ELSE LET life == lines[pos].life - 1 IN
         IF life <= 0
         THEN UpdateLines(RemoveAt(lines, pos), [slots EXCEPT ![pos] = 0], pos + 1)
         ELSE UpdateLines([lines EXCEPT ![pos].life = life],
                          [slots EXCEPT ![pos] =
                              IF SpanWithin(lines[pos], max_allowed_length)
                              THEN lines[pos].id ELSE 0],
                          pos + 1)

\* a plausible slip: the reset places the particle but leaves its life as it is
StepParticle_KeepLife(p, d) ==
    LET x == p.x + p.vx
        y == p.y + p.vy
        life == p.life - 1
    IN  IF Abs(x) > unit \/ Abs(y) > unit \/ life <= 0
        THEN [x |-> d.distance * d.cos, y |-> d.distance * d.sin,
              vx |-> d.speed * d.cos, vy |-> d.speed * d.sin, life |-> life]
        ELSE [p EXCEPT !.x = x, !.y = y, !.life = life]

\* one particle's step (lines 445-468), with the draws of its respawn
StepParticle(p, d) ==
    LET x == p.x + p.vx
        y == p.y + p.vy
        life == p.life - 1
    IN  IF Abs(x) > unit \/ Abs(y) > unit \/ life <= 0
        THEN [x |-> d.distance * d.cos, y |-> d.distance * d.sin,
              vx |-> d.speed * d.cos, vy |-> d.speed * d.sin, life |-> d.life]
        ELSE [p EXCEPT !.x = x, !.y = y, !.life = life]

\* a plausible slip: a dead particle is dropped from the pool, not reset
StepParticles_DropDead(ps, pdraws) ==
    LET alive == SelectSeq(ps, LAMBDA p : ~(\/ Abs(p.x + p.vx) > unit
                                            \/ Abs(p.y + p.vy) > unit
                                            \/ p.life - 1 <= 0))
    IN  Tuple([i \in 1..Len(alive) |-> StepParticle(alive[i], pdraws[i])], Len(alive))

\* for p in self.particles: ... (lines 445-468): every particle is stepped in place
StepParticles(ps, pdraws) ==
    Tuple([i \in 1..Len(ps) |-> StepParticle(ps[i], pdraws[i])], Len(ps))

\* a plausible slip: the array is appended and nothing is popped
Remember_NoEvict(history, radius) == Append(history, radius)

(***************************************************************************)
(* _create_harmonic_wave.  Angles are in thousandths of a radian, weights  *)
(* and sines in thousandths, the result in millionths.  The wave is taken  *)
(* on the program's own curve_points samples of theta; a sample is         *)
(* computed on demand, from the five raw samples its moving average reads. *)
(***************************************************************************)
curve_points == 720      \* self.num_points, unscaled
harmonic_factors == <<1, 3, 5, 7, 9>>             \* in tenths
harmonic_weights == <<400, 300, 150, 100, 50>>
phase_offsets == <<0, 500, 1000, 1500, 2000>>
breath_depth == 60
wave_speed == 8
breath_speed == 3
two_pi == 6283

\* sin of an angle in [0, pi], by Bhaskara's formula
\* 16 y (pi - y) / (5 pi^2 - 4 y (pi - y)), exact to 0.002
SinHalfTurn(y) ==
    LET p == (y * (two_pi \div 2 - y)) \div 100
    IN  (16000 * p) \div (5 * (((two_pi \div 2) * (two_pi \div 2)) \div 100) - 4 * p)

\* np.sin of a non-negative angle
Sin(a) ==
    LET y == a % two_pi
    IN  IF y <= two_pi \div 2 THEN SinHalfTurn(y) ELSE -SinHalfTurn(y - two_pi \div 2)

\* self.theta[k] of np.linspace(0, 2*np.pi, self.num_points, endpoint=True)
Theta(k) == (two_pi * k) \div (curve_points - 1)

\* wave[k] before the smoothing: the five harmonics and the breath effect
RawWave(k, wt, bp, phase_offset) ==
    SumSeq(Tuple([i \in 1..Len(harmonic_factors) |->
                     (harmonic_weights[i]
                        * Sin((Theta(k) * harmonic_factors[i]) \div 10
                              + (wave_speed * wt * harmonic_factors[i]) \div 10
                              + phase_offsets[i] + phase_offset)) \div 1000],
                 Len(harmonic_factors)))
      + (breath_depth * Sin(breath_speed * bp + Theta(k) \div 2)) \div 1000

\* smoothed_wave[k] * base_amplitude: the mean of padded_wave[k : k + 5],
\* where padded_wave[j] = wave[(j - 2) mod num_points] (np.pad, mode='wrap')
create_harmonic_wave(k, wt, bp, base_amplitude, phase_offset) ==
    (SumSeq(Tuple([m \in 1..5 |->
                      RawWave((k + m - 3 + curve_points) % curve_points,
                              wt, bp, phase_offset)], 5)) \div 5)
      * base_amplitude

\* self.wave_history.append(new_radius); pop(0) when longer than history_length
Remember(history, radius) ==
    LET h == Append(history, radius)
    IN  IF Len(h) > history_length THEN Tail(h) ELSE h

\* lines 304-512: the branch taken when get_audio_data returned a frame
ProcessFrame(frame, roll, draw, pdraws) ==
    LET wave_data == frame.samples
        spectrum_data == process_audio_data(wave_data)
        wmax == TrackPeak(wave_max, MaxAbs(wave_data))
        normalized_wave == NormalizeWave(wave_data, wmax)
        sound_intensity == SoundIntensity(Resample(normalized_wave))
        spawned == spawn_light_line(light_lines, sound_intensity, roll, draw,
                                    ticks + 1, hue')
        radius == [frame |-> frame.id, wave_time |-> wave_time',
                   breath_phase |-> breath_phase', wave_max |-> wmax]
        updated == UpdateLines(spawned, line_items, 1)
    IN  /\ wave_max' = wmax
        /\ spectrum_max' = TrackPeak(spectrum_max, MaxAbs(spectrum_data))
        /\ curve' = radius
        /\ wave_history' = Remember(wave_history, radius)
        /\ light_lines' = updated.lines
        /\ line_items' = updated.slots
        /\ particles' = StepParticles(particles, pdraws)
        /\ core_pulse_phase' = core_pulse_phase + 1
        /\ quiet' = IF MaxAbs(wave_data) = 0 THEN quiet + 1 ELSE 0

\* lines 304-357 when splprep raises (no try/except encloses it): the trackers
\* are updated and a line may have been spawned; nothing after line 357 runs
FitFails(frame, roll, draw) ==
    LET wave_data == frame.samples
        wmax == TrackPeak(wave_max, MaxAbs(wave_data))
        normalized_wave == NormalizeWave(wave_data, wmax)
        sound_intensity == SoundIntensity(Resample(normalized_wave))
    IN  /\ wave_max' = wmax
        /\ spectrum_max' = TrackPeak(spectrum_max, MaxAbs(process_audio_data(wave_data)))
        /\ light_lines' = spawn_light_line(light_lines, sound_intensity, roll, draw,
                                           ticks + 1, hue')
        /\ quiet' = 0
        /\ UNCHANGED <<curve, wave_history, line_items, particles, core_pulse_phase>>

\* lines 303-307: if data is not None (and the two results are not None)
HasFrame(d) == d /= NoFrame

\* a plausible slip: the release of the trackers is hoisted out of the branch
NoFrameBranch_Release ==
    /\ wave_max' = TrackPeak(wave_max, 0)
    /\ spectrum_max' = TrackPeak(spectrum_max, 0)
    /\ UNCHANGED <<scene, quiet>>

\* when data is None nothing below line 303 runs
NoFrameBranch == UNCHANGED <<trackers, scene, quiet>>

\* fitOk: whether splprep returns (it raises on input it finds invalid)
\* a plausible slip: the hue is advanced without the modulo
ShiftHue_NoWrap(h) == h + 1

\* (self.hue + self.hue_shift_speed) % 1.0 (line 298), in thousandths
ShiftHue(h) == (h + 1) % 1000

update_plot(roll, draw, pdraws, fitOk) ==
    /\ pc = "idle"
    /\ timer
    /\ ticks' = ticks + 1
    /\ wave_time' = wave_time + 1
    /\ breath_phase' = breath_phase + 1
    /\ hue' = ShiftHue(hue)
    /\ data' = get_audio_data(q)
    /\ q' = AfterGet(q)
    /\ IF ~HasFrame(get_audio_data(q))
       THEN NoFrameBranch /\ raised' = FALSE
       ELSE IF fitOk
       THEN ProcessFrame(get_audio_data(q), roll, draw, pdraws) /\ raised' = FALSE
       ELSE FitFails(get_audio_data(q), roll, draw) /\ raised' = TRUE
    /\ UNCHANGED <<devices, self_channels, capture, host, pc, log, selected, produced,
                   stops, window>>

Tick ==
    /\ ticks < MaxTicks
    /\ \E roll \in SpawnRolls, draw \in LineDraws,
          pdraws \in [1..NumParticles -> RespawnDraws], fitOk \in BOOLEAN :
           update_plot(roll, draw, pdraws, fitOk)

(***************************************************************************)
(* A consumer's direct call of get_audio_data (update_plot is its caller   *)
(* in the program; the method is public).                                  *)
(***************************************************************************)
Poll ==
    /\ pc = "idle"
    /\ data' = get_audio_data(q)
    /\ q' = AfterGet(q)
    /\ raised' = FALSE
    /\ UNCHANGED <<devices, self_channels, capture, host, pc, log, selected, produced,
                   stops, clock, trackers, scene, window, ticks, quiet>>

(***************************************************************************)
(* Spec: the AudioProcessor under any sequence of calls of its methods,    *)
(* with the host's callback running whenever a stream is started.          *)
(***************************************************************************)
Next ==
    \/ StartCapture
    \/ StartStream
    \/ start_running
    \/ stop_capture
    \/ close_stream
    \/ clear_state
    \/ Callback
    \/ Poll

Spec == Init /\ [][Next]_vars

(***************************************************************************)
(* SpecEngine: the program as main() runs it: start_capture() with no      *)
(* device id, then start_animation, which starts the timer and blocks in   *)
(* app.exec_(); the timer fires update_plot while the callback fills the   *)
(* queue.  When exec_() returns (the window was closed) or Ctrl-C is       *)
(* caught, or when start_capture raised, the finally clause runs           *)
(* stop_capture and main() is left.  Nothing in the program calls          *)
(* stop_animation: the timer and the window stay set to the end.           *)
(***************************************************************************)
\* main, line 25: processor.start_capture()
MainStartCapture ==
    /\ log = "none"
    /\ ~raised
    /\ ~win
    /\ stops = 0
    /\ \E listOk \in BOOLEAN, queryOk \in BOOLEAN, openOk \in BOOLEAN :
          start_capture(NoDevice, listOk, queryOk, openOk)

\* main, line 28: visualizer.start_animation(processor)
MainStartAnimation ==
    /\ log /= "none"
    /\ ~raised
    /\ line_items = <<>>
    /\ start_animation

\* main, lines 30-34: the try block is left, by exec_() returning inside
\* start_animation, by a KeyboardInterrupt caught there, or by the exception
\* start_capture raised, and the finally clause calls processor.stop_capture()
MainStopCapture ==
    /\ win \/ raised
    /\ stops = 0
    /\ stop_capture

\* the timer fires while app.exec_() runs, that is until main() has gone on
\* to stop_capture
ExecTick ==
    /\ stops = 0
    /\ Tick

\* the host delivers a block without a status flag
PlainCallback ==
    /\ produced < MaxFrames
    /\ \E indata \in InputBlocks : audio_callback(indata, FALSE)

NextEngine ==
    \/ MainStartCapture
    \/ StartStream
    \/ start_running
    \/ MainStartAnimation
    \/ PlainCallback
    \/ ExecTick
    \/ MainStopCapture
    \/ close_stream
    \/ clear_state

SpecEngine == Init /\ [][NextEngine]_vars

(***************************************************************************)
(* SpecSelect: find_loopback_device applied to every host device list of   *)
(* up to MaxDevices devices.                                               *)
(***************************************************************************)
InitSelect ==
    /\ devices \in SeqsUpTo(Devices, MaxDevices)
    /\ self_channels = channels
    /\ InitCapture
    /\ InitEngine

Select ==
    /\ selected = NotCalled
    /\ selected' = find_loopback_device(devices)
    /\ UNCHANGED <<devices, self_channels, capture, q, host, pc, log, raised, produced, stops, engine>>

SpecSelect == InitSelect /\ [][Select]_vars

(***************************************************************************)
(* SpecScene: the visualizer at work.  It starts in the state reached      *)
(* after max_lines ticks that each drew the steady block: with a line      *)
(* spawned on every one of them, on all but the first, or on none.  One    *)
(* more tick draws any block; from then on the host delivers silence.      *)
(***************************************************************************)
\* the frame the callback makes of the steady block
SteadySamples == Tuple([i \in 1..window_size |-> 500], window_size)

\* the radius data computed on tick t of the steady run
SteadyRadius(t) == [frame |-> t, wave_time |-> t, breath_phase |-> t, wave_max |-> 500]

\* the line spawned on tick t of the steady run, as it is after tick max_lines
SteadyLine(t) ==
    [id |-> t, life |-> line_life_max - (max_lines - t + 1),
     start_radius |-> 120, end_radius |-> 699, cos_diff |-> 995,
     hue |-> (t + 900) % 1000]

\* the pool after the steady run when lines were spawned on ticks first..max_lines
SteadyPool(first) ==
    Tuple([i \in 1..(max_lines - first + 1) |-> SteadyLine(first + i - 1)],
          max_lines - first + 1)

\* the render slots of a pool: line i is drawn in slot i
SlotsOf(pool) ==
    Tuple([i \in 1..max_lines |-> IF i <= Len(pool) THEN pool[i].id ELSE 0], max_lines)

\* particle 1 left the centre at construction with the shortest life; the
\* others are about to leave the square on its right edge
SteadyParticles ==
    Tuple([i \in 1..NumParticles |->
              IF i = 1 THEN [x |-> max_lines, y |-> 0, vx |-> 1, vy |-> 0,
                             life |-> 400 - max_lines]
              ELSE [x |-> unit - 20, y |-> 0, vx |-> 1, vy |-> 0,
                    life |-> 400 - max_lines]],
          NumParticles)

\* capture is running on the loopback device of the second host configuration
Capturing ==
    /\ devices = << Dev(<<"Speakers">>, 0), Dev(<<"Speakers", "LOOPBACK">>, 2) >>
    /\ self_channels = channels
    /\ device = 1
    /\ sample_rate = 48000
    /\ stream = 1
    /\ running = TRUE
    /\ open = {1}
    /\ active = {1}
    /\ pc = "idle"
    /\ log = "started"
    /\ raised = FALSE
    /\ selected = NotCalled
    /\ stops = 0
    /\ win = TRUE
    /\ timer = TRUE

InitScene ==
    /\ Capturing
    /\ q = <<>>
    /\ produced = max_lines
    /\ ticks = max_lines
    /\ wave_time = max_lines
    /\ breath_phase = max_lines
    /\ hue = max_lines
    /\ core_pulse_phase = max_lines
    /\ wave_max = 500
    /\ spectrum_max = MaxAbs(process_audio_data(SteadySamples))
    /\ wave_history = Tuple([i \in 1..history_length |->
                                SteadyRadius(max_lines - history_length + i)],
                            history_length)
    /\ curve = SteadyRadius(max_lines)
    /\ data = [id |-> max_lines, ndim |-> 1, samples |-> SteadySamples]
    /\ quiet = 0
    /\ particles = SteadyParticles
    /\ light_lines \in {SteadyPool(1), SteadyPool(2), <<>>}
    /\ line_items = SlotsOf(light_lines)

\* long enough for a particle to live out its life
SceneEnd == max_lines + 1 + 2 * SilentRun

\* the host delivers a block when the last one has been drawn
SceneCallback ==
    /\ q = <<>>
    /\ ticks < SceneEnd
    /\ \E indata \in InputBlocks :
          /\ ticks >= max_lines + 1 => MaxAbs(Mono(indata)) = 0
          /\ audio_callback(indata, FALSE)

\* the timer fires when a frame is waiting; the curve fit succeeds
SceneTick ==
    /\ q /= <<>>
    /\ \E roll \in SpawnRolls, draw \in LineDraws,
          pdraws \in [1..NumParticles -> RespawnDraws] :
           update_plot(roll, draw, pdraws, TRUE)

NextScene == SceneCallback \/ SceneTick

SpecScene == InitScene /\ [][NextScene]_vars

(***************************************************************************)
(* SpecPeak: the peak tracker.  The first frame drawn is at full scale;    *)
(* after it the host delivers silent and steady blocks.                    *)
(***************************************************************************)
FullBlock == Tuple([i \in 1..window_size |-> <<1000, 1000>>], window_size)

InitPeak ==
    /\ Capturing
    /\ q = << [id |-> 1, ndim |-> Ndim(FullBlock), samples |-> Mono(FullBlock)] >>
    /\ produced = 1
    /\ line_items = setup_plot(<<>>)
    /\ wave_time = 0
    /\ breath_phase = 0
    /\ hue = 0
    /\ wave_max = 100
    /\ spectrum_max = 100
    /\ wave_history = <<>>
    /\ curve = NoCurve
    /\ light_lines = <<>>
    /\ particles \in ParticlePools
    /\ core_pulse_phase = 0
    /\ ticks = 0
    /\ data = NoFrame
    /\ quiet = 0

PeakCallback ==
    /\ q = <<>>
    /\ ticks < DecayRun
    /\ \E indata \in InputBlocks :
          /\ MaxAbs(Mono(indata)) = 0 \/ Mono(indata) = SteadySamples
          /\ audio_callback(indata, FALSE)

\* the timer fires when a frame is waiting; the curve fit succeeds and the
\* roll is one on which no line is spawned
PeakTick ==
    /\ q /= <<>>
    /\ \E roll \in {r \in SpawnRolls : r >= line_spawn_chance}, draw \in LineDraws,
          pdraws \in [1..NumParticles -> RespawnDraws] :
           update_plot(roll, draw, pdraws, TRUE)

NextPeak == PeakCallback \/ PeakTick

SpecPeak == InitPeak /\ [][NextPeak]_vars

(***************************************************************************)
(* SpecMono: the capture API of a processor constructed with any channel   *)
(* count from 1 to MaxChannels.                                            *)
(***************************************************************************)
InitMono ==
    /\ devices \in HostConfigs
    /\ self_channels \in 1..MaxChannels
    /\ InitCapture
    /\ InitEngine

SpecMono == InitMono /\ [][Next]_vars

(***************************************************************************)
(* SpecHue: the colour cycle.  The host delivers blocks during the first   *)
(* ticks only; the timer keeps firing, with or without a frame, for more   *)
(* than one full turn of the hue.                                          *)
(***************************************************************************)
HueCallback ==
    /\ q = <<>>
    /\ ticks < MaxFrames
    /\ \E indata \in InputBlocks :
          /\ MaxAbs(Mono(indata)) = 0 \/ Mono(indata) = SteadySamples
          /\ audio_callback(indata, FALSE)

HueTick ==
    /\ ticks < HueRun
    /\ \E roll \in {r \in SpawnRolls : r >= line_spawn_chance}, draw \in LineDraws,
          pdraws \in [1..NumParticles -> RespawnDraws] :
           update_plot(roll, draw, pdraws, TRUE)

NextHue == HueCallback \/ HueTick

SpecHue == InitPeak /\ [][NextHue]_vars

(***************************************************************************)
(* Properties.                                                             *)
(***************************************************************************)
\* The claim's ranked predicates: 1 'loopback' (any case), 2 the localized
\* loopback word, 3 'wasapi' (any case), 4 the primary-capture label, 5 any
\* device; each over the devices that have input channels.
Ranked(k, d) ==
    /\ d.max_input_channels > 0
    /\ CASE k = 1 -> \E i \in 1..Len(d.name) : d.name[i] \in {"loopback", "Loopback", "LOOPBACK"}
         [] k = 2 -> \E i \in 1..Len(d.name) : d.name[i] = "ループバック"
         [] k = 3 -> \E i \in 1..Len(d.name) : d.name[i] \in {"wasapi", "WASAPI"}
         [] k = 4 -> \E i \in 1..Len(d.name) : d.name[i] = "プライマリ サウンド キャプチャ"
         [] OTHER -> TRUE

Matching(k) == { i \in 0..(Len(devices) - 1) : Ranked(k, devices[i + 1]) }

\* C1: find_loopback_device returns the first device, in host order, of the
\* highest-priority predicate that any device satisfies; the device returned
\* has input channels; None is returned exactly when no device has any.
C1_SelectsFirstOfBestRank ==
    selected /= NotCalled =>
        LET ranks == { k \in 1..5 : Matching(k) /= {} } IN
        /\ ranks /= {} =>
               LET best == CHOOSE k \in ranks : \A j \in ranks : k <= j
               IN  /\ selected \in Matching(best)
                   /\ \A i \in Matching(best) : selected <= i
        /\ selected /= NoDevice => devices[selected + 1].max_input_channels > 0
        /\ selected = NoDevice <=>
               \A i \in 1..Len(devices) : devices[i].max_input_channels = 0

\* a device is chosen by rank although an input device stands before it
C1_Witness ==
    /\ selected \notin {NotCalled, NoDevice}
    /\ \E i \in 1..selected : devices[i].max_input_channels > 0
    /\ \E i \in 1..Len(devices) :
          devices[i].max_input_channels = 0 /\ Ranked(1, [devices[i] EXCEPT !.max_input_channels = 2])

\* C2: after each of two stop_capture calls in succession, from any capture
\* state, no error was raised, running is False and no stream is held.
C2_StopTwiceNotRunning ==
    (stops >= 1 /\ pc = "idle") => (~raised /\ ~running /\ stream = NoStream)

\* a second stop_capture has returned after a first one that stopped a stream
C2_Witness == stops = 2 /\ pc = "idle" /\ log = "stopped"

\* C3: start_capture called while capture is running changes nothing: no
\* stream is opened, and device, sample rate, stream, running flag and queue
\* stay as they are.
C3_StartWhileRunningNoOp ==
    [][ (running /\ \E d \in DeviceIds, a \in BOOLEAN, b \in BOOLEAN, c \in BOOLEAN :
                        start_capture(d, a, b, c))
        => UNCHANGED <<device, sample_rate, stream, running, q, open, active>> ]_vars

\* start_capture has returned with its notice while frames were queued
C3_Witness == log = "already_running" /\ running /\ q /= <<>>

\* C4: the number of queued frames never exceeds a fixed capacity -- stated
\* here for the capacities below the number of callback invocations explored.
C4_QueueBounded == Len(q) < MaxFrames

\* C5: a tick takes at most one frame, and the frame it takes is the newest.
C5_TickTakesNewest ==
    [][ ticks' = ticks + 1 =>
          /\ Len(q') >= Len(q) - 1
          /\ q /= <<>> => data' = q[Len(q)] ]_vars

\* C6: stop_capture stops the stream, then closes it, then clears the capture
\* state; whenever a callback can run the state still holds the started
\* stream, and once stop_capture has returned no frame is enqueued.
C6_StoppedBeforeCleared ==
    /\ [](/\ pc = "stop_182" => (stream \notin active /\ stream \in open)
          /\ pc = "stop_183" => (stream \notin active /\ stream \notin open)
          /\ active /= {} => (stream /= NoStream /\ active = {stream} /\ stream \in open))
    /\ [][ (stops >= 1 /\ pc = "idle") => produced' = produced ]_vars

\* stop_capture has returned after the callback had enqueued frames
C6_Witness == stops >= 1 /\ pc = "idle" /\ log = "stopped" /\ produced >= 2

\* C7: after stop_capture has completed, get_audio_data returns the absence
\* value: no frame enqueued before the stop is handed out.
C7_NoFrameAfterStop ==
    (stops >= 1 /\ pc = "idle") => get_audio_data(q) = NoFrame

\* C8: get_audio_data never blocks; on an empty queue it returns None, which
\* no frame equals, without an error; otherwise it returns a frame.
C8_GetNeverBlocks ==
    /\ [](/\ pc = "idle" => ENABLED Poll
          /\ \A i \in 1..Len(q) : q[i] /= NoFrame)
    /\ [][ Poll => /\ ~raised'
                   /\ q = <<>> => data' = NoFrame
                   /\ q /= <<>> => (data' = q[1] /\ data' /= NoFrame) ]_vars

\* every frame enqueued was handed out, and a later call returned None
C8_Witness == produced >= 2 /\ q = <<>> /\ data = NoFrame /\ pc = "idle"

\* C9: on a tick without a frame, hue, particles, core pulse and line life
\* take the step they take on a tick with a frame.
C9_TimeDrivenAdvance ==
    [][ (ticks' = ticks + 1 /\ q = <<>>) =>
          /\ hue' = (hue + 1) % 1000
          /\ core_pulse_phase' = core_pulse_phase + 1
          /\ \A i \in 1..Len(particles) :
                \E d \in RespawnDraws : particles'[i] = StepParticle(particles[i], d)
          /\ light_lines' = UpdateLines(light_lines, line_items, 1).lines ]_vars

\* C10: a tick without a frame raises nothing, recomputes no geometry and
\* leaves the emitted curve, the wave history and both peak trackers as
\* they were.
C10_NoFrameKeepsGeometry ==
    [][ (ticks' = ticks + 1 /\ q = <<>>) =>
          /\ ~raised'
          /\ UNCHANGED <<curve, wave_history, wave_max, spectrum_max>> ]_vars

\* a tick found the queue empty after an earlier tick had drawn a frame
C10_Witness == data = NoFrame /\ ticks >= 2 /\ curve /= NoCurve

\* C11: the particle pool has the length it was constructed with after
\* every tick, whatever the ticks drew: frames, silent frames or nothing.
C11_ParticlePoolLength == Len(particles) = NumParticles

\* a particle has just been reset by a tick, after a tick that drew nothing
C11_Witness ==
    /\ ticks >= 2
    /\ data /= NoFrame
    /\ curve.frame = 1
    /\ \E i \in 1..Len(particles), d \in RespawnDraws :
          particles[i] = [x |-> d.distance * d.cos, y |-> d.distance * d.sin,
                          vx |-> d.speed * d.cos, vy |-> d.speed * d.sin,
                          life |-> d.life]

\* C12: the light-line pool never holds more than max_lines (8) lines.
C12_LinePoolBounded == max_lines = 8 /\ Len(light_lines) <= 8

\* the tick after the steady run has spawned the line that fills the pool
C12_Witness ==
    /\ ticks = max_lines + 1
    /\ Len(light_lines) = max_lines
    /\ light_lines[max_lines].id = ticks

\* the squared distance, in millionths, between the end points of a
\* candidate line, by the law of cosines
Distance2(c) ==
    c.start_radius * c.start_radius + c.end_radius * c.end_radius
    - (2 * c.start_radius * c.end_radius * c.cos_diff) \div 1000

\* a candidate whose end lies opposite of its start, 0.88 away
FarCandidate ==
    [start_radius |-> 180, start_angle |-> 0, end_radius |-> 700,
     angle_diff |-> 3142, cos_diff |-> -1000, hue_offset |-> 0]

\* C13: every line in the pool spans at most 0.8 from start to end, and
\* a candidate that spans more is rejected: the pool is left as it was.
C13_SpawnedWithinSpan ==
    /\ \A i \in 1..Len(light_lines) : Distance2(light_lines[i]) <= 800 * 800
    /\ \A c \in LineDraws \cup {FarCandidate} :
          Distance2(c) > 800 * 800 =>
              spawn_light_line(light_lines, 1000, 0, c, ticks + 1, hue) = light_lines

\* a line was spawned on the tick after the steady run
C13_Witness ==
    /\ ticks = max_lines + 1
    /\ \E i \in 1..Len(light_lines) :
          light_lines[i].id = ticks /\ light_lines[i].life = line_life_max - 1

\* C14: after 200 consecutive ticks that each processed a silent frame the
\* light-line pool is empty.
C14_SilenceEmptiesPool == quiet >= SilentRun => light_lines = <<>>

\* the silent run is complete and the pool is empty; a render slot still
\* names a line that was drawn during the run
C14_Witness ==
    /\ quiet >= SilentRun
    /\ light_lines = <<>>
    /\ \E i \in 1..Len(line_items) : line_items[i] /= 0

\* C15: start_capture without a device id, when no device has input
\* channels, opens no stream, leaves running False and ends with an error
\* for its caller.
C15_NoDeviceSurfaced ==
    [][ (/\ \E a \in BOOLEAN, b \in BOOLEAN, c \in BOOLEAN :
               start_capture(NoDevice, a, b, c)
         /\ ~running
         /\ device = NoDevice
         /\ \A i \in 1..Len(devices) : devices[i].max_input_channels = 0)
        => (/\ open' = open /\ active' = {} /\ stream' = stream /\ ~running'
            /\ raised') ]_vars

\* C16: a start_capture that the host rejects (at the device query, at the
\* construction of the stream or at its start) ends with running False and
\* with an error for its caller.
C16_StartFailureSurfaced ==
    [][ (/\ \/ \E d \in DeviceIds, a \in BOOLEAN, b \in BOOLEAN, c \in BOOLEAN :
                  start_capture(d, a, b, c)
            \/ \E ok \in BOOLEAN : start_stream(ok)
         /\ pc' = "idle"
         /\ log' = "start_failed")
        => (~running' /\ raised') ]_vars

\* C17: whenever start_capture or stop_capture has returned, the only
\* stream handle that can be open is the one held in self.stream, and none
\* is open unless capture is running.
C17_HandlesReleased ==
    pc = "idle" => (open \subseteq {stream} /\ (~running => open = {}))

\* C18: a callback invocation with a status flag enqueues its frame as one
\* without a flag does, raises nothing and leaves the capture state alone.
C18_StatusFlagStillEnqueues ==
    [][ \A indata \in InputBlocks :
          audio_callback(indata, TRUE) =>
              /\ q' = Append(q, [id |-> produced + 1, ndim |-> Ndim(indata),
                                 samples |-> Mono(indata)])
              /\ raised' = raised
              /\ UNCHANGED <<device, sample_rate, stream, running, open, active>> ]_vars

\* a flagged invocation has enqueued a frame while capture was running
C18_Witness == log = "status" /\ running /\ q /= <<>> /\ stream \in active

\* C19: a tick that draws a frame ends without an error even when the curve
\* fit fails: the frame's curve is emitted and the core pulse advances.
C19_FitFailureFallsBack ==
    [][ (ticks' = ticks + 1 /\ q /= <<>>) =>
          /\ ~raised'
          /\ curve'.frame = q[1].id
          /\ core_pulse_phase' = core_pulse_phase + 1 ]_vars

\* 0.995^n, in millionths
RECURSIVE Pow995(_)
Pow995(n) == IF n = 0 THEN 1000000 ELSE (Pow995(n - 1) * 995) \div 1000

\* C20: a tick that processes a frame sets wave_max to the larger of 0.995
\* times its value and the frame's peak; after the peak 1.0 and n silent
\* frames it is 0.995^n (to within n thousandths, the resolution of the model).
C20_PeakTrackerDecay ==
    /\ []((ticks >= 1 /\ quiet = ticks - 1) =>
             Abs(1000 * wave_max - Pow995(quiet)) <= 1000 * quiet)
    /\ [][ (ticks' = ticks + 1 /\ q /= <<>>) =>
             LET peak == MaxAbs(q[1].samples)
                 released == (wave_max * 995) \div 1000
             IN  /\ wave_max' = IF peak > released THEN peak ELSE released
                 /\ wave_max' > wave_max => peak > released ]_vars

\* the full-scale frame was followed by a run of silent frames
C20_Witness == ticks = DecayRun /\ quiet = ticks - 1 /\ wave_max < 950

(***************************************************************************)
(* C21: update_plot checks a running flag, so a tick taken while the       *)
(* capture's running flag is clear changes no engine state (clock,         *)
(* trackers, scene).                                                       *)
(***************************************************************************)
C21_StoppedTickIsInert ==
    [][(~running /\ ticks' = ticks + 1)
          => UNCHANGED <<clock, trackers, scene>>]_vars

(***************************************************************************)
(* C22: for every frame of window_size samples that reaches the consumer,  *)
(* process_audio_data yields window_size/2 + 1 bins, each one a finite     *)
(* value at or above the dB value of the clamp floor; the result depends   *)
(* on the frame alone.                                                     *)
(***************************************************************************)
C22_SpectrumShape ==
    \A i \in 1..Len(q) :
        LET spectrum == process_audio_data(q[i].samples)
        IN  /\ Len(q[i].samples) = window_size
            /\ Len(spectrum) = window_size \div 2 + 1
            /\ \A k \in 1..Len(spectrum) :
                   spectrum[k] >= floor_db

\* a queued frame with sound whose spectrum has a clamped bin and a bin above
\* the floor
C22_Witness ==
    \E i \in 1..Len(q) :
        LET spectrum == process_audio_data(q[i].samples)
        IN  /\ MaxAbs(q[i].samples) > 0
            /\ \E k \in 1..Len(spectrum) : spectrum[k] = floor_db
            /\ \E k \in 1..Len(spectrum) : spectrum[k] > floor_db

(***************************************************************************)
(* C23: on a tick that draws a frame, every light line that is in the pool *)
(* before the tick and still in it afterwards has lost exactly one step of *)
(* life.                                                                   *)
(***************************************************************************)
C23_EveryLineDecays ==
    [][(ticks' = ticks + 1 /\ q /= <<>>)
          => \A i \in 1..Len(light_lines) : \A j \in 1..Len(light_lines') :
                 light_lines'[j].id = light_lines[i].id
                     => light_lines'[j].life = light_lines[i].life - 1]_vars

(***************************************************************************)
(* C24: after a tick's line update no line of the pool has life <= 0, and  *)
(* every render slot that holds geometry shows a line that is still in the *)
(* pool.                                                                   *)
(***************************************************************************)
C24_DeadLinesNotShown ==
    /\ \A j \in 1..Len(light_lines) : light_lines[j].life > 0
    /\ \A i \in 1..Len(line_items) :
           line_items[i] /= 0
               => \E j \in 1..Len(light_lines) : light_lines[j].id = line_items[i]

(***************************************************************************)
(* C26: after a tick that drew a frame and ran its particle update, every  *)
(* particle lies inside the unit disk, x^2 + y^2 <= 1.                     *)
(***************************************************************************)
C26_ParticlesInUnitDisk ==
    (ticks >= 1 /\ HasFrame(data) /\ ~raised)
        => \A i \in 1..Len(particles) :
               particles[i].x * particles[i].x + particles[i].y * particles[i].y
                   <= unit * unit

(***************************************************************************)
(* C25: after a tick that drew a frame and ran its particle update, every  *)
(* particle of the pool has life > 0; a particle whose life ran out on     *)
(* that tick has a fresh life in [0.8, 1.0].                               *)
(***************************************************************************)
C25_ParticlesAlive ==
    [][(ticks' = ticks + 1 /\ q /= <<>> /\ ~raised')
          => /\ Len(particles') = NumParticles
             /\ \A i \in 1..Len(particles') :
                    /\ particles'[i].life > 0
                    /\ particles[i].life <= 1
                           => /\ particles'[i].life >= 400
                              /\ particles'[i].life <= 500]_vars

\* a particle that has just been respawned because its life ran out: it sits
\* at its respawn distance with a fresh life, and the run is longer than the
\* shortest life
C25_Witness ==
    /\ ticks >= 400
    /\ HasFrame(data)
    /\ \E d \in RespawnDraws :
           particles[1] = [x |-> d.distance * d.cos, y |-> d.distance * d.sin,
                           vx |-> d.speed * d.cos, vy |-> d.speed * d.sin,
                           life |-> d.life]

(***************************************************************************)
(* C27: wave_max and spectrum_max never fall below a fixed positive floor; *)
(* the floor tried is 0.1, the value both trackers are constructed with    *)
(* and the only positive constant the code gives them.                     *)
(***************************************************************************)
C27_PeakFloor ==
    /\ wave_max >= 100
    /\ spectrum_max >= 100

(***************************************************************************)
(* C28: after a tick that drew a frame, the normalized waveform is the     *)
(* waveform divided by wave_max and the normalized spectrum is the         *)
(* spectrum divided by spectrum_max, the trackers being those of the tick. *)
(***************************************************************************)
C28_NormalizedByOwnPeak ==
    (ticks >= 1 /\ HasFrame(data))
        => LET wave_data == data.samples
               spectrum_data == process_audio_data(wave_data)
           IN  /\ NormalizeWave(wave_data, wave_max)
                     = Tuple([i \in 1..Len(wave_data) |->
                                 Div(wave_data[i] * 1000, wave_max)], Len(wave_data))
               /\ NormalizeSpectrum(spectrum_data, spectrum_max)
                     = Tuple([i \in 1..Len(spectrum_data) |->
                                 Div(spectrum_data[i] * 1000, spectrum_max)],
                             Len(spectrum_data))

(***************************************************************************)
(* C29: the hue is in [0, 1) in every state, and every tick, with or       *)
(* without a frame, advances it by 0.001 modulo 1.                         *)
(***************************************************************************)
C29_HueCycles ==
    /\ [](hue >= 0 /\ hue < 1000)
    /\ [][ticks' = ticks + 1
             => hue' = IF hue + 1 >= 1000 THEN hue + 1 - 1000 ELSE hue + 1]_vars

\* the hue has wrapped round on a tick that found no frame, after ticks with
\* frames
C29_Witness ==
    /\ ticks = 1000
    /\ hue = 0
    /\ ~HasFrame(data)
    /\ wave_max > 100

(***************************************************************************)
(* C30: whatever channel count the processor was constructed with, every   *)
(* frame the callback enqueues is a one-dimensional array of window_size   *)
(* samples, and one invocation enqueues one frame.                         *)
(***************************************************************************)
C30_MonoFrame ==
    /\ Len(q) <= produced
    /\ \A i \in 1..Len(q) :
           /\ q[i].ndim = 1
           /\ Len(q[i].samples) = window_size

(***************************************************************************)
(* C31: the frames are numbered in the order the callback enqueues them.   *)
(* The waiting frames are in that order, a get hands over the oldest       *)
(* waiting frame and takes it out of the queue, and the frame last handed  *)
(* over is older than every waiting one: no frame is handed over twice or  *)
(* out of order.                                                           *)
(***************************************************************************)
C31_HandedOverOnceInOrder ==
    /\ [](/\ \A i \in 1..Len(q) : q[i].id >= 1 /\ q[i].id <= produced
          /\ \A i \in 1..Len(q), j \in 1..Len(q) : i < j => q[i].id < q[j].id
          /\ HasFrame(data) => \A i \in 1..Len(q) : data.id < q[i].id)
    /\ [][(data' /= data \/ Len(q') < Len(q))
             => IF q = <<>> THEN data' = NoFrame /\ q' = q
                ELSE data' = Head(q) /\ q' = Tail(q)]_vars

\* the first frame has been handed over while the second one waits
C31_Witness ==
    /\ HasFrame(data)
    /\ data.id = 1
    /\ q /= <<>>
    /\ Head(q).id = 2

(***************************************************************************)
(* C32: the wave history never holds more than history_length arrays; a    *)
(* tick that draws a frame appends that tick's array at the end and, when  *)
(* the history was full, drops exactly the oldest one, the others keeping  *)
(* their order.                                                            *)
(***************************************************************************)
C32_HistoryRing ==
    /\ [](Len(wave_history) <= history_length)
    /\ [][(ticks' = ticks + 1 /\ q /= <<>> /\ ~raised')
             => wave_history' =
                    IF Len(wave_history) < history_length
                    THEN wave_history \o <<curve'>>
                    ELSE SubSeq(wave_history, 2, Len(wave_history)) \o <<curve'>>]_vars

\* the history is full and its oldest array is no longer that of the first
\* frame: an eviction has happened
C32_Witness ==
    /\ Len(wave_history) = history_length
    /\ wave_history[1].frame > 1
    /\ wave_history[history_length] = curve

(***************************************************************************)
(* C33: on a tick that draws a frame, the harmonic wave of the main curve  *)
(* (base amplitude 0.06) has the same value at the first sample, theta =   *)
(* 0, and at the last one, theta = 2 pi, to within 0.005 of the unit wave: *)
(* more than two neighbouring samples of the wave can differ by.           *)
(***************************************************************************)
C33_HarmonicWaveCloses ==
    (ticks >= 1 /\ HasFrame(data) /\ ~raised)
        => Abs(create_harmonic_wave(0, wave_time, breath_phase, 60, 0)
                 - create_harmonic_wave(curve_points - 1, wave_time, breath_phase, 60, 0))
             <= 5 * 60

(***************************************************************************)
(* C34: whenever running is True a stream handle is held (self.stream is   *)
(* not None), and between calls that handle is open; after a start that    *)
(* failed or found no device running is False.                             *)
(***************************************************************************)
C34_RunningHoldsStream ==
    /\ running => stream /= NoStream
    /\ (running /\ pc = "idle") => stream \in open
    /\ (pc = "idle" /\ log \in {"no_device", "start_failed"}) => ~running

\* capture is running on an open, started stream that has delivered frames
C34_Witness ==
    /\ running
    /\ pc = "idle"
    /\ stream \in open
    /\ stream \in active
    /\ log = "started"
    /\ produced >= 1

(***************************************************************************)
(* C35: a frame is put into the queue only while running is True.          *)
(***************************************************************************)
C35_EnqueueOnlyWhileRunning ==
    [][Len(q') > Len(q) => running]_vars

(***************************************************************************)
(* C36: the pool is ordered by spawn time with strictly increasing         *)
(* remaining life, and a tick adds at most one line and removes at most    *)
(* one, the removed one being the first of the pool.                       *)
(***************************************************************************)
C36_OneInOneOut ==
    /\ [](\A i \in 1..Len(light_lines), j \in 1..Len(light_lines) :
              i < j => /\ light_lines[i].id < light_lines[j].id
                       /\ light_lines[i].life < light_lines[j].life)
    /\ [][ticks' = ticks + 1
             => LET before == {light_lines[i].id : i \in 1..Len(light_lines)}
                    after  == {light_lines'[i].id : i \in 1..Len(light_lines')}
                IN  /\ Cardinality(after \ before) <= 1
                    /\ Cardinality(before \ after) <= 1
                    /\ before \ after
                           \subseteq {light_lines[i].id : i \in 1..Min(1, Len(light_lines))}]_vars

(***************************************************************************)
(* C37: after a tick that drew a frame, every sample of the waveform       *)
(* normalized by that tick's wave_max lies in [-1, 1], the sound intensity *)
(* derived from it lies in [0, 1], and the spawn threshold                 *)
(* line_spawn_chance * intensity is at most line_spawn_chance.             *)
(***************************************************************************)
C37_NormalizedInRange ==
    (ticks >= 1 /\ HasFrame(data))
        => LET normalized_wave == NormalizeWave(data.samples, wave_max)
               sound_intensity == SoundIntensity(Resample(normalized_wave))
           IN  /\ \A i \in 1..Len(normalized_wave) :
                      normalized_wave[i] >= -1000 /\ normalized_wave[i] <= 1000
               /\ sound_intensity >= 0
               /\ sound_intensity <= 1000
               /\ line_spawn_chance * sound_intensity <= line_spawn_chance * 1000

\* a frame louder than the tracker was: its samples normalize to full scale
\* and twice their mean magnitude exceeds 1, so the clamp of the intensity acts
C37_Witness ==
    /\ ticks >= 1
    /\ HasFrame(data)
    /\ MaxAbs(data.samples) = wave_max
    /\ MaxAbs(NormalizeWave(data.samples, wave_max)) = 1000
    /\ SoundIntensity_NoClamp(Resample(NormalizeWave(data.samples, wave_max))) > 1000

=============================================================================
